---- MODULE Spec2Model ----
(***************************************************************************)
(* A pointer-level model of queue.c: a queue of string elements kept on a  *)
(* circular doubly-linked intrusive list anchored at a sentinel node.      *)
(*                                                                         *)
(* The heap is a set of node addresses.  Address H is the sentinel the     *)
(* queue handle points to; addresses 1..MaxNodes are element nodes.  Every *)
(* node has a next and a prev field, every element a value (a C string,    *)
(* modelled as its sequence of non-zero bytes).  mem records which         *)
(* addresses are currently allocated.  An access the C standard leaves     *)
(* undefined (a null or freed node dereferenced, a double free, a write    *)
(* outside the output buffer) sets ub.  An undefined access of a freed     *)
(* node either stops the program at that point (strict) or goes through: a *)
(* write lands in the freed block, a read of a pointer field yields what   *)
(* the block holds, an indeterminate pointer (junk).  A loop that never    *)
(* reaches its exit sets hang.                                             *)
(***************************************************************************)
EXTENDS Integers, Sequences, FiniteSets, TLC

\* ------------------------------------------------------------------ bounds
MaxNodes == 3
MaxBuf == 2
MaxBroken == 4

\* ------------------------------------------------------------- addresses
H == 0
NULL == 0 - 1
Elems == 1..MaxNodes
Nodes == {H} \cup Elems
Ptr == Nodes \cup {NULL}

\* The strings the caller inserts: "a", "aa", "b" as byte sequences.
Strings == {<<1>>, <<1, 1>>, <<2>>}
NoString == <<>>

\* A traversal that has not reached its exit after this many iterations is
\* taken never to reach it (a read-only loop is in a cycle as soon as it has
\* visited more nodes than exist).
Fuel == (MaxNodes + 2) * (MaxNodes + 2)

VARIABLES
    q,        \* the queue handle the caller holds: H, or NULL when q_new failed
    phase,    \* "live" between q_new and q_free, "freed" after q_free
    next,     \* next[n]: the next field of node n
    prev,     \* prev[n]: the prev field of node n
    value,    \* value[e]: the string element e owns
    mem,      \* mem[n]: "alloc" or "free"
    owned,    \* elements returned by a remove and not yet released by the caller
    ub,       \* the undefined behaviour that has happened: "none", "heap" (a
              \* null or freed node accessed, a double free) or "buffer" (a
              \* write outside the output buffer)
    halt,     \* the program stopped at the undefined access
    hang,     \* an operation never returned
    net,      \* successful inserts minus successful removes since q_new
    broken,   \* operations run on a ring whose invariant was already broken
    hist,     \* "insrem" while only inserts, removes and q_size have run
              \* since q_new, "any" otherwise
    last      \* the operation that has just returned: its name, inputs and
              \* result; name "none" once the caller has taken the result

vars == <<q, phase, next, prev, value, mem, owned, ub, halt, hang, net, broken, hist, last>>

\* ------------------------------------------------------------------ heap
\* The heap an operation works on, as one record; ret is its return value.
Heap(strict) ==
    [next |-> next, prev |-> prev, value |-> value, mem |-> mem,
     ub |-> "none", halt |-> FALSE, hang |-> FALSE, strict |-> strict,
     junk |-> NULL, ret |-> NULL, wr |-> {}]

\* The same heap in a run where the pointer fields of freed blocks read as j.
WithJunk(h, j) == [h EXCEPT !.junk = j]

Stop(h) == h.halt \/ h.hang
Crash(h) == [h EXCEPT !.ub = "heap", !.halt = TRUE]
Hang(h) == [h EXCEPT !.hang = TRUE]
Live(h, n) == n # NULL /\ h.mem[n] = "alloc"
IsElem(h, n) == n \in Elems /\ h.mem[n] = "alloc"
Ret(h, r) == IF Stop(h) THEN h ELSE [h EXCEPT !.ret = r]

\* A read of a pointer field of node n stops the program: n is null, or n is
\* freed and the access is trapped.
Fault(h, n) == n = NULL \/ (h.mem[n] = "free" /\ h.strict)

\* The heap after a read of a field of node n that did not stop the program.
Touch(h, n) ==
    IF n # NULL /\ h.mem[n] = "free" THEN [h EXCEPT !.ub = "heap"] ELSE h

\* n->next and n->prev as the program reads them.  A freed block holds what
\* was written to it after the free, and otherwise an indeterminate pointer.
NextOf(h, n) ==
    IF h.mem[n] = "free" /\ h.next[n] = NULL THEN h.junk ELSE h.next[n]

PrevOf(h, n) ==
    IF h.mem[n] = "free" /\ h.prev[n] = NULL THEN h.junk ELSE h.prev[n]

\* node->next = v and node->prev = v.
SetNext(h, n, v) ==
    IF Stop(h) THEN h
    ELSE IF n = NULL THEN Crash(h)
    ELSE IF h.mem[n] = "free"
         THEN IF h.strict THEN Crash(h)
              ELSE [h EXCEPT !.ub = "heap", !.next[n] = v]
    ELSE [h EXCEPT !.next[n] = v]

SetPrev(h, n, v) ==
    IF Stop(h) THEN h
    ELSE IF n = NULL THEN Crash(h)
    ELSE IF h.mem[n] = "free"
         THEN IF h.strict THEN Crash(h)
              ELSE [h EXCEPT !.ub = "heap", !.prev[n] = v]
    ELSE [h EXCEPT !.prev[n] = v]

\* ------------------------------------------------------- list primitives
INIT_LIST_HEAD(h, head) == SetPrev(SetNext(h, head, head), head, head)

\* Unlinks node by relinking its neighbours; node's own pointers stay stale.
list_del(h, node) ==
    IF Stop(h) THEN h
    ELSE IF Fault(h, node) THEN Crash(h)
    ELSE LET nx == NextOf(h, node)
             pv == PrevOf(h, node)
         IN  SetNext(SetPrev(Touch(h, node), nx, pv), pv, nx)

\* Links node immediately after head.
list_add(h, node, head) ==
    IF Stop(h) THEN h
    ELSE IF Fault(h, head) THEN Crash(h)
    ELSE LET nx == NextOf(h, head)
         IN  SetNext(SetPrev(SetNext(SetPrev(Touch(h, head), nx, node), node, nx),
                             node, head),
                     head, node)

\* Links node immediately before head.
list_add_tail(h, node, head) ==
    IF Stop(h) THEN h
    ELSE IF Fault(h, head) THEN Crash(h)
    ELSE LET pv == PrevOf(h, head)
         IN  SetPrev(SetNext(SetPrev(SetNext(Touch(h, head), pv, node), node, pv),
                             node, head),
                     head, node)

list_move(h, node, head) == list_add(list_del(h, node), node, head)

list_empty(h, head) == h.next[head] = head

list_is_singular(h, head) == ~list_empty(h, head) /\ h.prev[head] = h.next[head]

\* ------------------------------------------------------------- strings
\* strcmp: the sign of the first differing byte, the terminator being 0.
ByteAt(s, i) == IF i <= Len(s) THEN s[i] ELSE 0

RECURSIVE strcmp_from(_, _, _)
strcmp_from(a, b, i) ==
    IF ByteAt(a, i) # ByteAt(b, i)
    THEN (IF ByteAt(a, i) < ByteAt(b, i) THEN 0 - 1 ELSE 1)
    ELSE IF ByteAt(a, i) = 0 THEN 0
    ELSE strcmp_from(a, b, i + 1)

strcmp(a, b) == strcmp_from(a, b, 1)

\* ------------------------------------------------------- element release
\* free(e->value); free(e).  The freed block's content is indeterminate.
q_release_element(h, e) ==
    IF Stop(h) THEN h
    ELSE IF e \notin Elems \/ h.mem[e] = "free" THEN Crash(h)
    ELSE [h EXCEPT !.mem[e] = "free", !.value[e] = NoString,
                   !.next[e] = NULL, !.prev[e] = NULL]

\* ------------------------------------------------------- queue operations
\* q_new: the sentinel is allocated (ok) and made a one-node ring.
q_new(h, ok) ==
    IF ~ok THEN Ret(h, NULL)
    ELSE Ret(INIT_LIST_HEAD([h EXCEPT !.mem[H] = "alloc"], H), H)

\* The loop of list_for_each_entry_safe in q_free: release e, step to safe.
RECURSIVE free_loop(_, _, _, _, _)
free_loop(h, l, e, safe, fuel) ==
    IF Stop(h) THEN h
    ELSE IF e = l THEN h
    ELSE IF fuel = 0 THEN Hang(h)
    ELSE LET h1 == q_release_element(h, e)
         IN  IF Stop(h1) THEN h1
             ELSE IF ~Live(h1, safe) THEN Crash(h1)
             ELSE free_loop(h1, l, safe, h1.next[safe], fuel - 1)

q_free(h, l) ==
    IF l = NULL THEN h
    ELSE IF ~Live(h, l) \/ ~Live(h, h.next[l]) THEN Crash(h)
    ELSE LET h1 == free_loop(h, l, h.next[l], h.next[h.next[l]], Fuel)
         IN  IF Stop(h1) THEN h1
             ELSE [h1 EXCEPT !.mem[l] = "free", !.next[l] = NULL, !.prev[l] = NULL]

\* malloc(sizeof(element_t)) returning address e, and free(e) of an element
\* whose value was never set.
malloc_elem(h, e) == [h EXCEPT !.mem[e] = "alloc"]

\* An insert that forgets free(e) when strdup fails.
free_elem_forgotten(h, e) == h

free_elem(h, e) == [h EXCEPT !.mem[e] = "free"]

\* alloc says which allocation fails: "no_elem" (malloc), "no_str" (strdup),
\* or "ok" (none).
q_insert_head(h, head, s, e, alloc) ==
    IF head = NULL THEN Ret(h, FALSE)
    ELSE IF alloc = "no_elem" THEN Ret(h, FALSE)
    ELSE LET h1 == malloc_elem(h, e)
         IN  IF alloc = "no_str" THEN Ret(free_elem(h1, e), FALSE)
             ELSE Ret(list_add([h1 EXCEPT !.value[e] = s], e, head), TRUE)

\* A q_insert_tail that links the element at the front.
q_insert_tail_front(h, head, s, e, alloc) == q_insert_head(h, head, s, e, alloc)

q_insert_tail(h, head, s, e, alloc) ==
    IF head = NULL THEN Ret(h, FALSE)
    ELSE IF alloc = "no_elem" THEN Ret(h, FALSE)
    ELSE LET h1 == malloc_elem(h, e)
         IN  IF alloc = "no_str" THEN Ret(free_elem(h1, e), FALSE)
             ELSE Ret(list_add_tail([h1 EXCEPT !.value[e] = s], e, head), TRUE)

\* strncpy(sp, src, n): n bytes written at offsets 0..n-1, the string's bytes
\* and then zero padding.
strncpy(src, n) == {<<i, ByteAt(src, i + 1)>> : i \in 0..(n - 1)}

\* The offset bufsize - 1 in size_t arithmetic: for bufsize = 0 it is SIZE_MAX,
\* the byte just before the buffer once added to sp.
SIZE_MAX == 0 - 1
term_index(bufsize) == IF bufsize = 0 THEN SIZE_MAX ELSE bufsize - 1

\* if (sp) { strncpy(sp, e->value, bufsize); sp[bufsize - 1] = '\0'; }
copy_out(h, e, sp, bufsize) ==
    IF Stop(h) \/ ~sp THEN h
    ELSE IF ~IsElem(h, e) THEN Crash(h)
    ELSE LET t == term_index(bufsize)
             w == strncpy(h.value[e], bufsize)
             w1 == {p \in w : p[1] # t} \cup {<<t, 0>>}
         IN  IF t \in 0..(bufsize - 1) THEN [h EXCEPT !.wr = w1]
             ELSE IF h.strict THEN [h EXCEPT !.ub = "buffer", !.halt = TRUE, !.wr = w]
             ELSE [h EXCEPT !.ub = "buffer", !.wr = w1]

\* A q_remove_head that does not test list_empty.
q_remove_head_unchecked(h, head, sp, bufsize) ==
    IF head = NULL THEN Ret(h, NULL)
    ELSE LET e == h.next[head]
         IN  Ret(copy_out(list_del(h, h.next[head]), e, sp, bufsize), e)

q_remove_head(h, head, sp, bufsize) ==
    IF head = NULL \/ list_empty(h, head) THEN Ret(h, NULL)
    ELSE LET e == h.next[head]
         IN  Ret(copy_out(list_del(h, h.next[head]), e, sp, bufsize), e)

q_remove_tail(h, head, sp, bufsize) ==
    IF head = NULL \/ list_empty(h, head) THEN Ret(h, NULL)
    ELSE LET e == h.prev[head]
         IN  Ret(copy_out(list_del(h, h.prev[head]), e, sp, bufsize), e)

\* A q_size that counts every node twice.
size_step_twice(len) == len + 2

\* len++ of q_size.
size_step(len) == len + 1

RECURSIVE size_loop(_, _, _, _, _)
size_loop(h, head, li, len, fuel) ==
    IF li = head THEN Ret(h, len)
    ELSE IF fuel = 0 THEN Hang(h)
    ELSE IF Fault(h, li) THEN Crash(h)
    ELSE size_loop(Touch(h, li), head, NextOf(h, li), size_step(len), fuel - 1)

q_size(h, head) ==
    IF head = NULL THEN Ret(h, 0)
    ELSE size_loop(h, head, h.next[head], 0, Fuel)

\* A q_delete_mid whose fast cursor looks one node further ahead and so stops
\* on the earlier of two middle elements.
mid_continue_early(h, head, fast) ==
    LET n == NextOf(h, fast)
    IN  n # head /\ n # NULL /\ NextOf(h, n) # head

\* The loop condition of q_delete_mid: fast != head && fast->next != head.
mid_continue(h, head, fast) == fast # head /\ NextOf(h, fast) # head

\* The fast/slow walk of q_delete_mid.  idir points to the next field of node
\* at (at first the sentinel's), so *idir is next[at].
RECURSIVE mid_loop(_, _, _, _, _)
mid_loop(h, head, fast, at, fuel) ==
    IF Fault(h, fast) THEN Crash(h)
    ELSE IF ~mid_continue(h, head, fast) THEN Ret(Touch(h, fast), at)
    ELSE IF fuel = 0 THEN Hang(Touch(h, fast))
    ELSE IF Fault(h, at) \/ Fault(h, NextOf(h, fast)) THEN Crash(h)
    ELSE LET mid == NextOf(h, fast)
         IN  mid_loop(Touch(Touch(Touch(h, fast), mid), at), head,
                      NextOf(h, mid), NextOf(h, at), fuel - 1)

q_delete_mid(h, head) ==
    IF head = NULL \/ list_empty(h, head) THEN Ret(h, FALSE)
    ELSE LET w == mid_loop(h, head, h.next[head], head, Fuel)
         IN  IF Stop(w) THEN w
             ELSE IF Fault(w, w.ret) THEN Crash(w)
             ELSE LET mid == NextOf(w, w.ret)
                  IN  Ret(q_release_element(list_del(Touch(w, w.ret), mid), mid),
                          TRUE)

\* A q_delete_dup that releases the duplicate without unlinking it.
dup_body_nounlink(h, e, safe) ==
    IF ~IsElem(h, e) \/ ~IsElem(h, safe) THEN Crash(h)
    ELSE IF strcmp(h.value[e], h.value[safe]) = 0
         THEN q_release_element(h, e)
    ELSE h

\* The body of q_delete_dup's loop for an element with a successor:
\* if (strcmp(e->value, safe->value) == 0) { list_del; q_release_element }.
dup_body(h, e, safe) ==
    IF ~IsElem(h, e) \/ ~IsElem(h, safe) THEN Crash(h)
    ELSE IF strcmp(h.value[e], h.value[safe]) = 0
         THEN q_release_element(list_del(h, e), e)
    ELSE h

RECURSIVE dup_loop(_, _, _, _, _)
dup_loop(h, head, e, safe, fuel) ==
    IF Stop(h) THEN h
    ELSE IF e = head THEN h
    ELSE IF fuel = 0 THEN Hang(h)
    ELSE IF ~Live(h, e) THEN Crash(h)
    ELSE IF h.next[e] = head THEN h
    ELSE LET h1 == dup_body(h, e, safe)
         IN  IF Stop(h1) THEN h1
             ELSE IF ~Live(h1, safe) THEN Crash(h1)
             ELSE dup_loop(h1, head, safe, h1.next[safe], fuel - 1)

q_delete_dup(h, head) ==
    IF head = NULL THEN Ret(h, FALSE)
    ELSE IF ~Live(h, h.next[head]) THEN Crash(h)
    ELSE Ret(dup_loop(h, head, h.next[head], h.next[h.next[head]], Fuel), TRUE)

\* A q_swap that does not advance after a move.
swap_stay(h, l) == l

\* The step l = l->next of q_swap's loop.
swap_next(h, l) == NextOf(h, l)

RECURSIVE swap_loop(_, _, _, _)
swap_loop(h, head, l, fuel) ==
    IF Stop(h) THEN h
    ELSE IF l = head THEN h
    ELSE IF Fault(h, l) THEN Crash(h)
    ELSE IF NextOf(h, l) = head THEN Touch(h, l)
    ELSE IF fuel = 0 THEN Hang(Touch(h, l))
    ELSE LET h1 == list_move(Touch(h, l), l, NextOf(h, l))
         IN  IF Stop(h1) THEN h1
             ELSE IF Fault(h1, l) THEN Crash(h1)
             ELSE swap_loop(Touch(h1, l), head, swap_next(h1, l), fuel - 1)

\* A q_swap that reads head->next without testing head.
q_swap_unchecked(h, head) ==
    IF head = NULL THEN Crash(h)
    ELSE swap_loop(h, head, h.next[head], Fuel)

q_swap(h, head) ==
    IF head = NULL THEN h
    ELSE swap_loop(h, head, h.next[head], Fuel)

\* A q_reverse that moves every node to the back (list_move_tail).
reverse_move_tail(h, l, head) == list_add_tail(list_del(h, l), l, head)

\* The body of q_reverse's loop: list_move(l, head).
reverse_move(h, l, head) == list_move(h, l, head)

\* The loop of list_for_each_safe in q_reverse: move l to the front.
RECURSIVE reverse_loop(_, _, _, _, _)
reverse_loop(h, head, l, safe, fuel) ==
    IF Stop(h) THEN h
    ELSE IF l = head THEN h
    ELSE IF fuel = 0 THEN Hang(h)
    ELSE LET h1 == reverse_move(h, l, head)
         IN  IF Stop(h1) THEN h1
             ELSE IF Fault(h1, safe) THEN Crash(h1)
             ELSE reverse_loop(Touch(h1, safe), head, safe, NextOf(h1, safe),
                               fuel - 1)

\* A q_reverse that only brings the last element to the front.
q_reverse_rotate(h, head) ==
    IF head = NULL \/ list_empty(h, head) THEN h
    ELSE list_move(h, h.prev[head], head)

q_reverse(h, head) ==
    IF head = NULL \/ list_empty(h, head) THEN h
    ELSE IF Fault(h, h.next[head]) THEN Crash(h)
    ELSE reverse_loop(Touch(h, h.next[head]), head, h.next[head],
                      NextOf(h, h.next[head]), Fuel)

\* ------------------------------------------------------------------ sort
\* A merge that takes the greater head.
merge_takes_greater(v1, v2) == strcmp(v1, v2) > 0

\* A merge that takes the longer string first.
merge_takes_longer(v1, v2) == Len(v1) > Len(v2)

\* The choice of mergeTwoLists: strcmp(e1->value, e2->value) < 0 takes l1,
\* anything else takes l2.
merge_takes_l1(v1, v2) == strcmp(v1, v2) < 0

\* *ptr = x, where ptr is &head (tail = NULL, the local head is h.ret) or
\* &tail->next.
merge_store(h, tail, x) ==
    IF tail = NULL THEN Ret(h, x) ELSE SetNext(h, tail, x)

\* The loop of mergeTwoLists; h.ret is the local variable head.
RECURSIVE merge_loop(_, _, _, _, _)
merge_loop(h, l1, l2, tail, fuel) ==
    IF Stop(h) THEN h
    ELSE IF l1 = NULL \/ l2 = NULL
         THEN merge_store(h, tail, IF l1 = NULL THEN l2 ELSE l1)
    ELSE IF fuel = 0 THEN Hang(h)
    ELSE IF ~IsElem(h, l1) \/ ~IsElem(h, l2) THEN Crash(h)
    ELSE LET first == merge_takes_l1(h.value[l1], h.value[l2])
             node == IF first THEN l1 ELSE l2
             h1 == merge_store(h, tail, node)
         IN  IF Stop(h1) THEN h1
             ELSE IF first THEN merge_loop(h1, h1.next[l1], l2, node, fuel - 1)
             ELSE merge_loop(h1, l1, h1.next[l2], node, fuel - 1)

mergeTwoLists(h, l1, l2) == merge_loop(Ret(h, NULL), l1, l2, NULL, Fuel)

\* The fast/slow walk of mergesort; returns slow.
RECURSIVE split_loop(_, _, _, _)
split_loop(h, slow, fast, fuel) ==
    IF fast = NULL THEN Ret(h, slow)
    ELSE IF ~Live(h, fast) THEN Crash(h)
    ELSE IF h.next[fast] = NULL THEN Ret(h, slow)
    ELSE IF fuel = 0 THEN Hang(h)
    ELSE IF ~Live(h, slow) \/ ~Live(h, h.next[fast]) THEN Crash(h)
    ELSE split_loop(h, h.next[slow], h.next[h.next[fast]], fuel - 1)

RECURSIVE mergesort(_, _)
mergesort(h, head) ==
    IF Stop(h) THEN h
    ELSE IF head = NULL THEN Ret(h, head)
    ELSE IF ~Live(h, head) THEN Crash(h)
    ELSE IF h.next[head] = NULL THEN Ret(h, head)
    ELSE LET s == split_loop(h, head, h.next[head], Fuel)
         IN  IF Stop(s) THEN s
             ELSE IF ~Live(s, s.ret) THEN Crash(s)
             ELSE LET right == s.next[s.ret]
                      left == mergesort(SetNext(s, s.ret, NULL), head)
                      rght == mergesort(left, right)
                  IN  mergeTwoLists(rght, left.ret, rght.ret)

\* The re-threading loop of q_sort: every node with a successor gets its prev;
\* returns the node whose next is NULL.
RECURSIVE rethread_loop(_, _, _, _)
rethread_loop(h, l, pv, fuel) ==
    IF Stop(h) THEN h
    ELSE IF ~Live(h, l) THEN Crash(h)
    ELSE IF h.next[l] = NULL THEN Ret(h, l)
    ELSE IF fuel = 0 THEN Hang(h)
    ELSE rethread_loop(SetPrev(h, l, pv), h.next[l], l, fuel - 1)

q_sort(h, head) ==
    IF head = NULL \/ list_empty(h, head) \/ list_is_singular(h, head) THEN h
    ELSE LET h1 == SetNext(h, h.prev[head], NULL)
             m == mergesort(h1, h1.next[head])
             h2 == SetNext(m, head, m.ret)
             r == IF Stop(h2) THEN h2 ELSE rethread_loop(h2, h2.next[head], head, Fuel)
         IN  IF Stop(r) THEN r
             ELSE Ret(SetPrev(SetNext(r, r.ret, head), head, r.ret), NULL)

\* ------------------------------------------------------------- observers
\* The forward traversal from the sentinel: the nodes met following next from
\* nx[H] until the sentinel, NULL, or more nodes than exist.
RECURSIVE FwdFrom(_, _, _)
FwdFrom(nx, n, fuel) ==
    IF n = H \/ n = NULL \/ fuel = 0 THEN <<>>
    ELSE <<n>> \o FwdFrom(nx, nx[n], fuel - 1)

\* The backward traversal: the nodes met following prev from pv[H].
RECURSIVE BwdFrom(_, _, _)
BwdFrom(pv, n, fuel) ==
    IF n = H \/ n = NULL \/ fuel = 0 THEN <<>>
    ELSE <<n>> \o BwdFrom(pv, pv[n], fuel - 1)

Range(s) == {s[i] : i \in 1..Len(s)}
Fwd == FwdFrom(next, next[H], MaxNodes + 1)
Bwd == BwdFrom(prev, prev[H], MaxNodes + 1)
Vals(s) == [i \in 1..Len(s) |-> value[s[i]]]

\* n.next.prev == n and n.prev.next == n for every node of the ring, the
\* sentinel included, every one of them allocated.
RingOK ==
    /\ q = H
    /\ LET R == {H} \cup Range(Fwd)
       IN  \A n \in R : /\ mem[n] = "alloc"
                        /\ next[n] \in R /\ prev[n] \in R
                        /\ prev[next[n]] = n /\ next[prev[n]] = n

FreeElems == {e \in Elems : mem[e] = "free"}
Allocated == {n \in Nodes : mem[n] = "alloc"}

\* --------------------------------------------------------------- actions
\* An allocated node points to a freed one.  Only then can q_size,
\* q_delete_mid, q_swap, q_reverse or a remove read a freed node: none of
\* them frees a node before its last read.
Dangling ==
    \E n \in Nodes :
        /\ mem[n] = "alloc"
        /\ \/ (next[n] # NULL /\ mem[next[n]] = "free")
           \/ (prev[n] # NULL /\ mem[prev[n]] = "free")

\* The runs a call can take where it reads a freed node: the access is
\* trapped, or it goes through and the pointer fields of freed blocks read as
\* some pointer.  Where no freed node can be read one pointer stands for all.
Junk == IF Dangling THEN Ptr ELSE {NULL}
Runs == {Heap(TRUE)} \cup {WithJunk(Heap(FALSE), j) : j \in Junk}

Running == phase = "live" /\ ub = "none" /\ ~hang /\ last.name = "none"

\* An element is leaked when it is allocated, not on the forward traversal
\* and not owned by the caller.
Leaked == (Allocated \ {H}) \ (Range(Fwd) \cup owned)

\* The queue is sound: its ring invariant holds and nothing is leaked.
Sound == q = NULL \/ phase = "freed" \/ (RingOK /\ Leaked = {})

\* A queue whose ring invariant is broken is explored MaxBroken operations
\* deep.  A queue whose ring is valid but which has leaked elements is not
\* explored further: the leaked elements are out of the ring's reach, and the
\* queue behaves as a sound one in a smaller heap.
Explored == Sound \/ (~RingOK /\ broken < MaxBroken)

\* The caller releases an element it was handed before its next call on the
\* queue, or after q_free.
Called == Running /\ Explored /\ owned = {}

\* The record of an operation that ended in heap record r: preOK says the ring
\* invariant held when it was called, moved that it changed the forward
\* traversal; s and alloc are the string an insert was given and the
\* allocation that failed in it.
Op(name, r) ==
    [name |-> name, ret |-> r.ret, preOK |-> RingOK,
     moved |-> FwdFrom(r.next, r.next[H], MaxNodes + 1) # Fwd,
     sp |-> FALSE, bufsize |-> 0, wr |-> r.wr, s |-> NoString, alloc |-> "ok"]

Idle == [name |-> "none", ret |-> NULL, preOK |-> FALSE, moved |-> FALSE,
         sp |-> FALSE, bufsize |-> 0, wr |-> {}, s |-> NoString, alloc |-> "ok"]

\* The heap after an operation that ended in heap record r.
Store(r) ==
    /\ next' = r.next
    /\ prev' = r.prev
    /\ value' = r.value
    /\ mem' = r.mem
    /\ ub' = r.ub
    /\ halt' = r.halt
    /\ hang' = r.hang

Tick == broken' = IF Sound THEN 0 ELSE broken + 1

Init ==
    /\ q \in {H, NULL}
    /\ phase = "live"
    /\ next = [n \in Nodes |-> IF n = H /\ q = H THEN H ELSE NULL]
    /\ prev = [n \in Nodes |-> IF n = H /\ q = H THEN H ELSE NULL]
    /\ value = [n \in Nodes |-> NoString]
    /\ mem = [n \in Nodes |-> IF n = H /\ q = H THEN "alloc" ELSE "free"]
    /\ owned = {}
    /\ ub = "none" /\ halt = FALSE /\ hang = FALSE
    /\ net = 0
    /\ broken = 0
    /\ hist = "insrem"
    /\ last = [Idle EXCEPT !.name = "q_new", !.ret = q]

\* A new queue is explored from a heap in which the last one leaked nothing.
New ==
    /\ phase = "freed" /\ ub = "none" /\ ~hang /\ last.name = "none"
    /\ Allocated \subseteq owned
    /\ \E ok \in BOOLEAN :
         LET r == q_new(Heap(TRUE), ok)
         IN  /\ Store(r)
             /\ q' = r.ret
             /\ last' = Op("q_new", r)
    /\ phase' = "live"
    /\ net' = 0
    /\ broken' = 0
    /\ hist' = "insrem"
    /\ UNCHANGED owned

Free ==
    /\ Running
    /\ Explored
    /\ \E strict \in BOOLEAN :
         LET r == q_free(Heap(strict), q)
         IN  /\ Store(r)
             /\ last' = Op("q_free", r)
    /\ q' = NULL
    /\ phase' = "freed"
    /\ broken' = 0
    /\ UNCHANGED <<owned, net, hist>>

InsertHead ==
    /\ Called
    /\ Tick
    /\ \E s \in Strings, alloc \in {"ok", "no_elem", "no_str"}, strict \in BOOLEAN :
         \E e \in (IF alloc = "no_elem" THEN {NULL} ELSE FreeElems) :
           LET r == q_insert_head(Heap(strict), q, s, e, alloc)
           IN  /\ Store(r)
               /\ last' = [Op("q_insert_head", r) EXCEPT !.s = s, !.alloc = alloc]
               /\ net' = IF hist = "insrem" /\ r.ret = TRUE THEN net + 1 ELSE net
    /\ UNCHANGED <<q, phase, owned, hist>>

InsertTail ==
    /\ Called
    /\ Tick
    /\ \E s \in Strings, alloc \in {"ok", "no_elem", "no_str"}, strict \in BOOLEAN :
         \E e \in (IF alloc = "no_elem" THEN {NULL} ELSE FreeElems) :
           LET r == q_insert_tail(Heap(strict), q, s, e, alloc)
           IN  /\ Store(r)
               /\ last' = [Op("q_insert_tail", r) EXCEPT !.s = s, !.alloc = alloc]
               /\ net' = IF hist = "insrem" /\ r.ret = TRUE THEN net + 1 ELSE net
    /\ UNCHANGED <<q, phase, owned, hist>>

\* The caller's arguments to a remove: no buffer, or a buffer of bufsize bytes.
BufArgs == {<<FALSE, 0>>} \cup {<<TRUE, n>> : n \in 0..MaxBuf}

RemoveHead ==
    /\ Called
    /\ Tick
    /\ \E a \in BufArgs, h \in Runs :
         LET r == q_remove_head(h, q, a[1], a[2])
         IN  /\ Store(r)
             /\ last' = [Op("q_remove_head", r) EXCEPT !.sp = a[1], !.bufsize = a[2]]
             /\ owned' = IF r.ret = NULL \/ Stop(r) THEN owned ELSE owned \cup {r.ret}
             /\ net' = IF hist = "insrem" /\ r.ret # NULL THEN net - 1 ELSE net
    /\ UNCHANGED <<q, phase, hist>>

RemoveTail ==
    /\ Called
    /\ Tick
    /\ \E a \in BufArgs, h \in Runs :
         LET r == q_remove_tail(h, q, a[1], a[2])
         IN  /\ Store(r)
             /\ last' = [Op("q_remove_tail", r) EXCEPT !.sp = a[1], !.bufsize = a[2]]
             /\ owned' = IF r.ret = NULL \/ Stop(r) THEN owned ELSE owned \cup {r.ret}
             /\ net' = IF hist = "insrem" /\ r.ret # NULL THEN net - 1 ELSE net
    /\ UNCHANGED <<q, phase, hist>>

\* The caller releases an element a remove returned.
Release ==
    /\ ub = "none" /\ ~hang /\ last.name = "none"
    /\ \E e \in owned :
         LET r == q_release_element(Heap(TRUE), e)
         IN  /\ Store(r)
             /\ last' = Op("q_release_element", Ret(r, e))
             /\ owned' = owned \ {e}
    /\ UNCHANGED <<q, phase, net, broken, hist>>

Size ==
    /\ Called
    /\ Tick
    /\ \E h \in Runs :
         LET r == q_size(h, q)
         IN  /\ Store(r)
             /\ last' = Op("q_size", r)
    /\ UNCHANGED <<q, phase, owned, net, hist>>

DeleteMid ==
    /\ Called
    /\ Tick
    /\ \E h \in Runs :
         LET r == q_delete_mid(h, q)
         IN  /\ Store(r)
             /\ last' = Op("q_delete_mid", r)
    /\ hist' = "any"
    /\ net' = 0
    /\ UNCHANGED <<q, phase, owned>>

DeleteDup ==
    /\ Called
    /\ Tick
    /\ \E strict \in BOOLEAN :
         LET r == q_delete_dup(Heap(strict), q)
         IN  /\ Store(r)
             /\ last' = Op("q_delete_dup", r)
    /\ hist' = "any"
    /\ net' = 0
    /\ UNCHANGED <<q, phase, owned>>

Swap ==
    /\ Called
    /\ Tick
    /\ \E h \in Runs :
         LET r == q_swap(h, q)
         IN  /\ Store(r)
             /\ last' = Op("q_swap", r)
    /\ hist' = "any"
    /\ net' = 0
    /\ UNCHANGED <<q, phase, owned>>

Reverse ==
    /\ Called
    /\ Tick
    /\ \E h \in Runs :
         LET r == q_reverse(h, q)
         IN  /\ Store(r)
             /\ last' = Op("q_reverse", r)
    /\ hist' = "any"
    /\ net' = 0
    /\ UNCHANGED <<q, phase, owned>>

Sort ==
    /\ Called
    /\ Tick
    /\ \E strict \in BOOLEAN :
         LET r == q_sort(Heap(strict), q)
         IN  /\ Store(r)
             /\ last' = Op("q_sort", r)
    /\ hist' = "any"
    /\ net' = 0
    /\ UNCHANGED <<q, phase, owned>>

\* The caller takes the result; the next call can start.
Return ==
    /\ ub = "none" /\ ~hang /\ last.name # "none"
    /\ Explored
    /\ last' = Idle
    /\ UNCHANGED <<q, phase, next, prev, value, mem, owned, ub, halt, hang, net,
                   broken, hist>>

Next ==
    \/ Return
    \/ New
    \/ Free
    \/ InsertHead
    \/ InsertTail
    \/ RemoveHead
    \/ RemoveTail
    \/ Release
    \/ Size
    \/ DeleteMid
    \/ DeleteDup
    \/ Swap
    \/ Reverse
    \/ Sort

Spec == Init /\ [][Next]_vars

\* The program whose caller never sorts.
NextNoSort ==
    \/ Return
    \/ New
    \/ Free
    \/ InsertHead
    \/ InsertTail
    \/ RemoveHead
    \/ RemoveTail
    \/ Release
    \/ Size
    \/ DeleteMid
    \/ DeleteDup
    \/ Swap
    \/ Reverse

SpecNoSort == Init /\ [][NextNoSort]_vars

\* ------------------------------------------------------- claim vocabulary
Removes == {"q_remove_head", "q_remove_tail"}

\* The values along s are in ascending byte-wise order.
Ascending(s) ==
    \A i \in 1..(Len(s) - 1) : strcmp(value[s[i]], value[s[i + 1]]) <= 0

\* The place of node x in s.
Pos(s, x) == CHOOSE i \in 1..Len(s) : s[i] = x

\* The elements of s whose value no other element of s has.
OccursOnce(s, i) == \A j \in 1..Len(s) : j # i => value[s[j]] # value[s[i]]
UniqueOnly(s) ==
    LET keep == {i \in 1..Len(s) : OccursOnce(s, i)}
        F[k \in 0..Len(s)] ==
            IF k = 0 THEN <<>>
            ELSE IF k \in keep THEN Append(F[k - 1], s[k]) ELSE F[k - 1]
    IN  F[Len(s)]

\* s without its element at place k.
Without(s, k) == [i \in 1..(Len(s) - 1) |-> IF i < k THEN s[i] ELSE s[i + 1]]

\* s with the elements at places 2i-1 and 2i exchanged, an odd last one kept.
SwapPairs(s) ==
    [i \in 1..Len(s) |->
        IF i % 2 = 1 THEN (IF i + 1 <= Len(s) THEN s[i + 1] ELSE s[i])
        ELSE s[i - 1]]

Min(a, b) == IF a < b THEN a ELSE b

\* ------------------------------------------------------------------ C1
\* C1: after q_sort returns on a valid queue, the ring invariant holds for
\* every node, the sentinel and the last element included.
C1_SortRestoresRing == (last.name = "q_sort" /\ last.preOK) => RingOK

\* ------------------------------------------------------------------ C2
\* C2: after q_sort on a valid queue the forward traversal holds exactly the
\* same nodes, none allocated, freed, lost or duplicated, their values
\* untouched and in ascending byte-wise order.
C2_SortAscendingPermutation ==
    [][(last'.name = "q_sort" /\ last'.preOK) =>
          /\ ub' = "none" /\ ~hang'
          /\ Len(Fwd') = Len(Fwd)
          /\ Range(Fwd') = Range(Fwd)
          /\ mem' = mem
          /\ value' = value
          /\ Ascending(Fwd)']_vars

\* q_sort has reordered b, a, aa (in some order) into a, aa, b.
C2_Witness ==
    /\ last.name = "q_sort" /\ last.preOK /\ last.moved
    /\ Vals(Fwd) = << <<1>>, <<1, 1>>, <<2>> >>

\* ------------------------------------------------------------------ C3
\* C3: q_sort is stable: two elements with equal values keep, after q_sort,
\* the relative order they had before it.
C3_SortStable ==
    [][(last'.name = "q_sort" /\ last'.preOK) =>
          \A i, j \in 1..Len(Fwd) :
              (i < j /\ value[Fwd[i]] = value[Fwd[j]])
                  => Pos(Fwd', Fwd[i]) < Pos(Fwd', Fwd[j])]_vars

\* ------------------------------------------------------------------ C4
\* C4: q_delete_dup on a queue sorted ascending leaves, in order, exactly the
\* elements whose value occurred once; every copy of a duplicated value goes.
C4_DeleteDupDropsAllCopies ==
    [][(last'.name = "q_delete_dup" /\ last'.preOK /\ Ascending(Fwd)) =>
          Fwd' = UniqueOnly(Fwd)]_vars

\* ------------------------------------------------------------------ C5
\* C5: in every sequence of operations no element is leaked, none is freed
\* twice, no freed element is accessed, and once the queue is freed and the
\* caller has released what it was handed nothing is left allocated.  (A
\* program stopped by a write outside the output buffer releases nothing
\* more; that case is C6's.)
C5_EveryElementReleasedOnce ==
    ub # "buffer" =>
        /\ ub = "none"
        /\ Leaked = {}
        /\ (phase = "freed" /\ owned = {}) => Allocated = {}

\* ------------------------------------------------------------------ C6
\* C6: a remove writes the output buffer only if it is non-null and
\* bufsize > 0, and then only at offsets 0..bufsize-1: at most bufsize-1 bytes
\* of the value, then zero bytes.
C6_BufferWrittenInBounds ==
    last.name \in Removes =>
        /\ {p[1] : p \in last.wr} \subseteq 0..(last.bufsize - 1)
        /\ (~last.sp \/ last.bufsize = 0) => last.wr = {}
        /\ (last.wr # {} /\ last.ret \in Elems) =>
              \A p \in last.wr :
                  p[2] = IF p[1] < Min(Len(value[last.ret]), last.bufsize - 1)
                         THEN value[last.ret][p[1] + 1] ELSE 0

\* ------------------------------------------------------------------ C7
\* C7: with no q_sort among the operations, the ring invariant holds for every
\* node, sentinel included, after every single operation.
C7_RingInvariantHolds == (phase = "live" /\ q = H) => RingOK

\* q_reverse, q_swap, q_delete_mid or q_delete_dup has just rearranged a queue
\* that still has two elements or more.
C7_Witness ==
    /\ last.name \in {"q_reverse", "q_swap", "q_delete_mid", "q_delete_dup"}
    /\ last.moved /\ Len(Fwd) >= 2 /\ RingOK

\* ------------------------------------------------------------------ C8
\* C8: while only inserts and removes have run since q_new, q_size is the
\* number of successful inserts minus the number of successful removes; it is
\* 0 for a null or empty queue.
C8_SizeIsInsertsMinusRemoves ==
    (phase = "live" /\ ub = "none" /\ ~hang) =>
        /\ hist = "insrem" => q_size(Heap(TRUE), q).ret = net
        /\ (hist = "insrem" /\ last.name = "q_size") => last.ret = net
        /\ (q = NULL \/ next[H] = H) => q_size(Heap(TRUE), q).ret = 0

\* After inserts and a successful remove that leave one element, q_size is 1.
C8_Witness ==
    /\ last.name \in Removes /\ last.ret \in Elems /\ ub = "none"
    /\ hist = "insrem" /\ net = 1
    /\ q_size(Heap(TRUE), q).ret = 1

\* ------------------------------------------------------------------ C9
\* C9: q_delete_mid on a valid queue of n >= 1 elements returns true, unlinks
\* and frees exactly the element at 0-based index floor(n/2) and keeps the
\* others in order; on a null or empty queue it returns false and changes
\* nothing.
C9_DeleteMidRemovesFloorHalf ==
    [][last'.name = "q_delete_mid" =>
          IF q = NULL \/ next[H] = H
          THEN last'.ret = FALSE /\ UNCHANGED <<next, prev, value, mem>>
          ELSE last'.preOK =>
                 LET n == Len(Fwd)
                     mid == Fwd[(n \div 2) + 1]
                 IN  /\ last'.ret = TRUE
                     /\ Fwd' = Without(Fwd, (n \div 2) + 1)
                     /\ mem' = [mem EXCEPT ![mid] = "free"]
                     /\ \A e \in Range(Fwd') : value'[e] = value[e]
                     /\ RingOK']_vars

\* q_delete_mid has returned true on a valid queue of three elements.
C9_Witness ==
    /\ last.name = "q_delete_mid" /\ last.preOK /\ last.ret = TRUE
    /\ Len(Fwd) = 2

\* ----------------------------------------------------------------- C10
\* C10: q_swap on a valid queue exchanges the elements at positions 2i and
\* 2i+1 and keeps an odd trailing element; it allocates and frees nothing and
\* changes nothing on a null, empty or singular queue.
C10_SwapExchangesPairs ==
    [][last'.name = "q_swap" =>
          IF q = NULL THEN UNCHANGED <<next, prev, value, mem>>
          ELSE last'.preOK =>
                 /\ ub' = "none" /\ ~hang'
                 /\ Fwd' = SwapPairs(Fwd)
                 /\ mem' = mem
                 /\ value' = value
                 /\ RingOK'
                 /\ Len(Fwd) <= 1 => UNCHANGED <<next, prev>>]_vars

\* q_swap has rearranged a valid queue of three elements.
C10_Witness ==
    /\ last.name = "q_swap" /\ last.preOK /\ last.moved /\ Len(Fwd) = 3

\* The sequence s back to front.
Rev(s) == [i \in 1..Len(s) |-> s[Len(s) + 1 - i]]

\* ----------------------------------------------------------------- C11
\* C11: q_reverse on a valid queue leaves the forward traversal exactly
\* reversed, over the same elements, none allocated or freed and no value
\* touched; on a null or empty queue it changes nothing.
C11_ReverseReverses ==
    [][last'.name = "q_reverse" =>
          IF q = NULL \/ next[H] = H
          THEN UNCHANGED <<next, prev, value, mem>>
          ELSE last'.preOK =>
                 /\ ub' = "none" /\ ~hang'
                 /\ Fwd' = Rev(Fwd)
                 /\ mem' = mem
                 /\ value' = value]_vars

\* q_reverse has reversed a valid queue of three elements.
C11_Witness ==
    /\ last.name = "q_reverse" /\ last.preOK /\ last.moved /\ Len(Fwd) = 3

\* ----------------------------------------------------------------- C12
\* C12: q_reverse is an involution: a second q_reverse, applied to the heap
\* a q_reverse of a valid queue leaves (once, the heap of the step just
\* taken), gives back every next and prev pointer the queue had before the
\* first, hence the original order of the very same elements, with no value
\* or allocation changed.
C12_ReverseTwiceRestores ==
    [][(last'.name = "q_reverse" /\ last'.preOK) =>
          LET once == q_reverse(Heap(TRUE), q)
              twice == q_reverse(once, q)
          IN  /\ once.next = next' /\ once.prev = prev'
              /\ twice.ub = "none" /\ ~twice.hang
              /\ twice.next = next
              /\ twice.prev = prev
              /\ twice.value = value
              /\ twice.mem = mem]_vars

\* q_reverse has reversed a valid queue of three elements two of which hold
\* the same value, and a second q_reverse would move them again.
C12_Witness ==
    /\ last.name = "q_reverse" /\ last.preOK /\ last.moved /\ Len(Fwd) = 3
    /\ \E i, j \in 1..3 : i # j /\ value[Fwd[i]] = value[Fwd[j]]
    /\ q_reverse(Heap(TRUE), q).next # next

\* The values along the forward traversal of heap record h.
HeapVals(h) ==
    LET s == FwdFrom(h.next, h.next[H], MaxNodes + 1)
    IN  [i \in 1..Len(s) |-> h.value[s[i]]]

\* ----------------------------------------------------------------- C13
\* C13: q_sort is idempotent on values: called on a valid queue whose values
\* are already ascending it leaves the forward sequence of values as it was,
\* and a second q_sort, applied to the heap the first one leaves (once, the
\* heap of the step just taken, its last prev stale), gives the same sequence
\* of values again.
C13_SortIdempotentOnValues ==
    [][(last'.name = "q_sort" /\ last'.preOK) =>
          LET once == q_sort(Heap(TRUE), q)
              twice == q_sort(once, q)
          IN  /\ once.next = next' /\ once.value = value'
              /\ Ascending(Fwd) => HeapVals(once) = Vals(Fwd)
              /\ twice.ub = "none" /\ ~twice.hang
              /\ HeapVals(twice) = HeapVals(once)]_vars

\* q_sort has returned on a queue that already was a, aa, b and has left its
\* forward traversal as it was.
C13_Witness ==
    /\ last.name = "q_sort" /\ last.preOK /\ ~last.moved /\ Len(Fwd) = 3
    /\ Vals(Fwd) = << <<1>>, <<1, 1>>, <<2>> >>

Inserts == {"q_insert_head", "q_insert_tail"}

\* ----------------------------------------------------------------- C14
\* C14: an insert given a null queue, or in which the allocation of the
\* element or of the string's copy fails, returns false; and an insert that
\* returns false leaves every next and prev pointer, every value and the set
\* of allocated nodes exactly as before the call, the element node allocated
\* before a failed strdup having been freed.  (An insert stopped at an
\* undefined access, on a ring already corrupted, returns nothing.)
C14_FailedInsertChangesNothing ==
    [][(last'.name \in Inserts /\ ~halt') =>
          /\ (q = NULL \/ last'.alloc # "ok") => last'.ret = FALSE
          /\ last'.ret = FALSE =>
                /\ ub' = "none" /\ ~hang'
                /\ UNCHANGED <<next, prev, value, mem>>]_vars

\* An insert into a non-empty queue has returned false because strdup
\* failed after the element node had been allocated.
C14_Witness ==
    /\ last.name \in Inserts /\ last.alloc = "no_str" /\ last.ret = FALSE
    /\ q = H /\ Len(Fwd) >= 1

\* ----------------------------------------------------------------- C15
\* C15: q_remove_head and q_remove_tail on an empty queue return NULL and
\* change nothing: the sentinel's next and prev still point to the sentinel,
\* no pointer, value or allocation changes and no byte of the output buffer
\* is written, whatever sp and bufsize are.
C15_RemoveOnEmptyDoesNothing ==
    [][(last'.name \in Removes /\ q = H /\ next[H] = H) =>
          /\ last'.ret = NULL
          /\ ub' = "none" /\ ~hang'
          /\ next'[H] = H /\ prev'[H] = H
          /\ UNCHANGED <<next, prev, value, mem, owned>>
          /\ last'.wr = {}]_vars

\* A remove given a buffer of at least one byte has returned NULL on an empty
\* queue.
C15_Witness ==
    /\ last.name \in Removes /\ last.ret = NULL /\ q = H /\ next[H] = H
    /\ last.sp /\ last.bufsize >= 1

\* ----------------------------------------------------------------- C16
\* C16: every operation given a null queue handle returns its safe result and
\* neither reads through the handle nor changes anything: q_free, q_swap,
\* q_reverse and q_sort do nothing, the inserts, q_delete_mid and q_delete_dup
\* return false, the removes return NULL and write no buffer, q_size
\* returns 0.
C16_NullHandleIsSafe ==
    [][(q = NULL /\ phase = "live"
          /\ last'.name \notin {"none", "q_new", "q_release_element"}) =>
          /\ ub' = "none" /\ ~hang'
          /\ UNCHANGED <<next, prev, value, mem, owned>>
          /\ last'.name \in Inserts \cup {"q_delete_mid", "q_delete_dup"}
                => last'.ret = FALSE
          /\ last'.name \in Removes => (last'.ret = NULL /\ last'.wr = {})
          /\ last'.name = "q_size" => last'.ret = 0]_vars

\* q_swap has returned on the null handle a failed q_new gave.
C16_Witness ==
    /\ q = NULL /\ phase = "live" /\ last.name = "q_swap" /\ ub = "none"

\* ----------------------------------------------------------------- C17
\* C17: once q_sort, q_reverse, q_swap or a delete has run, every later
\* successful q_remove_head, q_remove_tail or q_delete_mid removes exactly one
\* element: the forward traversal, whose length is what q_size returns, gets
\* one shorter, q_remove_tail returns its last element, and the other
\* elements stay in their order.  (A remove that writes outside its buffer
\* is C6's case.)
C17_RemoveAfterSortRemovesOne ==
    [][(/\ hist = "any" /\ ~halt'
        /\ \/ last'.name \in Removes /\ last'.ret # NULL
           \/ last'.name = "q_delete_mid" /\ last'.ret = TRUE
        /\ ub' # "buffer") =>
          /\ ub' = "none"
          /\ Len(Fwd') = Len(Fwd) - 1
          /\ last'.name = "q_remove_tail" => last'.ret = Fwd[Len(Fwd)]
          /\ \E k \in 1..Len(Fwd) : Fwd' = Without(Fwd, k)]_vars

\* ----------------------------------------------------------------- C18
\* C18: while only inserts and removes have run since q_new, the ring is the
\* abstract sequence: a successful q_insert_head prepends one new element
\* holding the given string, a successful q_insert_tail appends it, a
\* successful q_remove_head takes away and returns the first element, a
\* successful q_remove_tail the last, nothing else moves or changes value,
\* and the traversal through prev is the forward traversal back to front.
C18_RingRefinesSequence ==
    [][(hist = "insrem" /\ phase = "live" /\ q = H) =>
          /\ (last'.name = "q_insert_head" /\ last'.ret = TRUE) =>
                /\ Len(Fwd') = Len(Fwd) + 1
                /\ Tail(Fwd') = Fwd
                /\ Fwd'[1] \notin Range(Fwd)
                /\ value'[Fwd'[1]] = last'.s
                /\ \A e \in Range(Fwd) : value'[e] = value[e]
          /\ (last'.name = "q_insert_tail" /\ last'.ret = TRUE) =>
                /\ Len(Fwd') = Len(Fwd) + 1
                /\ SubSeq(Fwd', 1, Len(Fwd)) = Fwd
                /\ Fwd'[Len(Fwd')] \notin Range(Fwd)
                /\ value'[Fwd'[Len(Fwd')]] = last'.s
                /\ \A e \in Range(Fwd) : value'[e] = value[e]
          /\ (last'.name = "q_remove_head" /\ last'.ret # NULL) =>
                /\ Fwd # <<>>
                /\ last'.ret = Fwd[1]
                /\ Fwd' = Tail(Fwd)
                /\ value' = value
          /\ (last'.name = "q_remove_tail" /\ last'.ret # NULL) =>
                /\ Fwd # <<>>
                /\ last'.ret = Fwd[Len(Fwd)]
                /\ Fwd' = SubSeq(Fwd, 1, Len(Fwd) - 1)
                /\ value' = value
          /\ (phase' = "live" /\ hist' = "insrem") => Bwd' = Rev(Fwd')]_vars

\* After inserts at both ends q_remove_tail has returned the last element,
\* leaving two elements whose backward traversal mirrors the forward one.
C18_Witness ==
    /\ hist = "insrem" /\ last.name = "q_remove_tail" /\ last.ret \in Elems
    /\ Len(Fwd) = 2 /\ Bwd = Rev(Fwd)
    /\ value[Fwd[1]] # value[Fwd[2]]

\* ----------------------------------------------------------------- C19
\* C19: a successful q_remove_head or q_remove_tail only unlinks: no node is
\* freed or allocated and no value changes, so the returned element and its
\* string stay allocated as they were; the caller now owns the element; it is
\* no longer on the forward traversal; and every other element of the queue
\* is still there, in the same order.
C19_RemoveOnlyUnlinks ==
    [][(last'.name \in Removes /\ last'.ret # NULL) =>
          /\ mem' = mem /\ mem'[last'.ret] = "alloc"
          /\ value' = value
          /\ last'.ret \in owned'
          /\ last'.ret \notin Range(Fwd')
          /\ \E k \in 1..Len(Fwd) :
                Fwd[k] = last'.ret /\ Fwd' = Without(Fwd, k)]_vars

\* ----------------------------------------------------------------- C20
\* C20: every operation terminates in every reachable state: no operation
\* taken has failed to return, and in every state of a live queue each
\* operation that holds a loop (q_size, q_free, q_delete_mid, q_delete_dup,
\* q_swap, q_reverse, q_sort with its split, merge and re-threading loops)
\* would reach its exit if it were called now, in every run it can take.
C20_EveryOperationTerminates ==
    /\ ~hang
    /\ (phase = "live" /\ ub = "none") =>
          \A h \in Runs :
              /\ ~q_size(h, q).hang
              /\ ~q_free(h, q).hang
              /\ ~q_delete_mid(h, q).hang
              /\ ~q_delete_dup(h, q).hang
              /\ ~q_swap(h, q).hang
              /\ ~q_reverse(h, q).hang
              /\ ~q_sort(h, q).hang

====
